---- MODULE Spec2Model ----
(***************************************************************************)
(* Model of vocab_coverage/embedding.py: the per-model driver              *)
(* embedding_analysis (vocabulary, embedding extraction, NaN filtering,    *)
(* reduction/rendering hand-off, file skipping, resource release) and the  *)
(* batching helpers get_sentences_embedding_in_batch and                   *)
(* get_output_embeddings.                                                  *)
(*                                                                         *)
(* A token is its id.  A surface text is an integer as well: the text t    *)
(* (t < MaxTok) is the text that is also the vocabulary key of token t,    *)
(* the text t + MaxTok is what convert_tokens_to_string gives for a token  *)
(* whose key carries a word-boundary marker, a text that is no key.        *)
(* An embedding row is [tok, vals]: vals are its D = 2 elements, each      *)
(* "fin", "nan", "inf" or "-inf"; tok records which token id the model     *)
(* was asked about when it produced the row.                               *)
(***************************************************************************)
EXTENDS Integers, Sequences, FiniteSets, TLC

MaxTok == 2      \* tokens of the tokenizer
MaxTypes == 2    \* length of the embedding_type list
MaxSent == 3     \* length of a sentence list given to the batching helper
MaxBatch == 3    \* batch_size given to the batching helper directly

VARIABLES
    model_name,                \* argument of embedding_analysis
    embedding_type,            \* argument: the list of embedding types
    override,                  \* argument
    marked,                    \* tokens whose surface text is not their key
    has_get_input_embeddings,  \* hasattr(model, 'get_input_embeddings') with a weight
    model_vocab_size,          \* rows of the model's input embedding table
    files,                     \* output file of each embedding type
    pc,                        \* position in embedding_analysis
    etype_idx,                 \* position of the for loop in embedding_type
    vocab,                     \* local variable vocab
    embeddings,                \* local variable embeddings
    called,                    \* calls made so far
    raised_at,                 \* where the exception leaving the function came from
    weight,                    \* the model's input embedding table
    hidden,                    \* the model's output embedding of each token
    loaded,                    \* load_tokenizer / load_model were called
    released,                  \* release_resource was called
    sentences,                 \* batching helper: argument
    batch_size,                \* batching helper: argument / computed value
    memory,                    \* what show_gpu_usage reports
    result,                    \* batching helper: outcome
    step                       \* batching helper: position

vars == <<model_name, embedding_type, override, marked, has_get_input_embeddings,
          model_vocab_size, files, pc, etype_idx, vocab, embeddings, called,
          raised_at, weight, hidden, loaded, released, sentences, batch_size, memory, result, step>>

analysis_vars == <<model_name, embedding_type, override, marked,
                   has_get_input_embeddings, model_vocab_size, files, pc, etype_idx,
                   vocab, embeddings, called, raised_at, weight, hidden, loaded,
                   released>>

batch_vars == <<sentences, batch_size, memory, result, step>>

----------------------------------------------------------------------------
(* Values *)

EMBEDDING_TYPE_INPUT == "input"

EMBEDDING_TYPE_OUTPUT == "output"

ETypes == {EMBEDDING_TYPE_INPUT, EMBEDDING_TYPE_OUTPUT, "other"}

ModelNames == {"org/model", "OpenAI/text-embedding-ada-002", "OpenAI/gpt-4"}

TokenIds == 0 .. (MaxTok - 1)

RowKinds == {<<"fin", "fin">>, <<"fin", "nan">>, <<"inf", "-inf">>}

GpuReports == {[total |-> 0, free |-> 0],
               [total |-> 16000, free |-> 600],
               [total |-> 16000, free |-> 1200],
               [total |-> 16000, free |-> 3600],
               [total |-> 16000, free |-> 12000]}

SeqsUpTo(S, n) == UNION {[1 .. k -> S] : k \in 0 .. n}

Min(a, b) == IF a < b THEN a ELSE b

None == [none |-> TRUE, rows |-> <<>>]

Matrix(rows) == [none |-> FALSE, rows |-> rows]

Returned(v) == [raised |-> FALSE, value |-> v]

Raised == [raised |-> TRUE, value |-> None]

is_openai(name) == name \in {"OpenAI/text-embedding-ada-002", "OpenAI/gpt-4"}

----------------------------------------------------------------------------
(* Tokenizer and vocabulary *)

convert_tokens_to_string(k) == IF k \in marked THEN k + MaxTok ELSE k

convert_tokens_to_ids(text) == IF text \in TokenIds THEN text ELSE 0

get_vocab_openai == [j \in 1 .. MaxTok |-> j - 1]

get_vocab(name) ==
    IF is_openai(name) THEN get_vocab_openai
    ELSE [j \in 1 .. MaxTok |-> convert_tokens_to_string(j - 1)]

truncate_vocab(v) ==
    IF has_get_input_embeddings /\ Len(v) > model_vocab_size
    THEN SubSeq(v, 1, model_vocab_size)
    ELSE v

----------------------------------------------------------------------------
(* Embedding extraction *)

\* table: the model's input embedding table, one row of values per token id.
get_input_embeddings(name, v, table) ==
    IF is_openai(name) THEN Returned(None)
    ELSE LET vocab_size == Min(model_vocab_size, Len(v))
         IN Returned(Matrix([j \in 1 .. vocab_size |->
                               [tok |-> j - 1, vals |-> table[j - 1]]]))

\* table: the mean last table state the model gives for each token id.
get_sentences_embeddings(sents, table) ==
    [j \in 1 .. Len(sents) |->
        LET id == convert_tokens_to_ids(sents[j])
        IN [tok |-> id, vals |-> table[id]]]

RECURSIVE batch_loop(_, _, _, _, _)
batch_loop(sents, bs, table, i, acc) ==
    IF i >= Len(sents)
    THEN acc
    ELSE LET batch_sentences == SubSeq(sents, i + 1, Min(i + bs, Len(sents)))
             batch_embeddings == get_sentences_embeddings(batch_sentences, table)
             next == IF i = 0
                     THEN [bound |-> TRUE, rows |-> batch_embeddings]
                     ELSE [bound |-> TRUE, rows |-> acc.rows \o batch_embeddings]
         IN batch_loop(sents, bs, table, i + bs, next)

get_sentences_embedding_in_batch(sents, bs, table) ==
    IF bs = 0
    THEN Raised                                   \* range() arg 3 must not be zero
    ELSE LET e == batch_loop(sents, bs, table, 0, [bound |-> FALSE, rows |-> <<>>])
         IN IF e.bound THEN Returned(Matrix(e.rows))
            ELSE Raised                           \* embeddings is not assigned

\* Python 3 round(q / 200): to the nearest integer, a tie to the even one.
round_div_200(q) ==
    LET k == q \div 200
        r == q % 200
    IN IF r < 100 THEN k
       ELSE IF r > 100 THEN k + 1
       ELSE IF k % 2 = 0 THEN k ELSE k + 1

output_batch_size(mem) ==
    IF mem.total > 0 THEN round_div_200(mem.free \div 12) * 200 ELSE 100

get_output_embeddings_openai(v, table) ==
    Returned(Matrix([j \in 1 .. Len(v) |-> [tok |-> v[j], vals |-> table[v[j]]]]))

get_output_embeddings(name, v, mem, table) ==
    IF is_openai(name) THEN get_output_embeddings_openai(v, table)
    ELSE get_sentences_embedding_in_batch(v, output_batch_size(mem), table)

get_embeddings(name, v, et, mem, table) ==
    IF et = EMBEDDING_TYPE_INPUT THEN get_input_embeddings(name, v, table)
    ELSE IF et = EMBEDDING_TYPE_OUTPUT THEN get_output_embeddings(name, v, mem, table)
    ELSE Returned(None)

----------------------------------------------------------------------------
(* Sanitization: lines 323-332 of embedding_analysis *)

np_isnan_any(e) == \E k \in DOMAIN e.vals : e.vals[k] = "nan"

RECURSIVE sanitize_loop(_, _, _, _, _)
sanitize_loop(emb, v, i, not_non_embeddings, not_non_vocab) ==
    IF i > Len(emb)
    THEN [embeddings |-> not_non_embeddings, vocab |-> not_non_vocab]
    ELSE IF np_isnan_any(emb[i])
         THEN sanitize_loop(emb, v, i + 1, not_non_embeddings, not_non_vocab)
         ELSE sanitize_loop(emb, v, i + 1, Append(not_non_embeddings, emb[i]),
                            Append(not_non_vocab, v[i]))

\* enumerate(None) raises TypeError; vocab[i] raises IndexError past the end of vocab.
sanitize_raises(e, v) == e.none \/ Len(e.rows) > Len(v)

\* Variant: the kept rows paired with the first tokens of vocab (vocab[:M]).
sanitize_first_tokens(rows, v) ==
    LET kept == sanitize_loop(rows, v, 1, <<>>, <<>>)
    IN [embeddings |-> kept.embeddings, vocab |-> SubSeq(v, 1, Len(kept.embeddings))]

sanitize(rows, v) == sanitize_loop(rows, v, 1, <<>>, <<>>)

\* Variant: len(embeddings) >= 0.
has_points_or_empty(e) == ~e.none /\ Len(e.rows) >= 0

has_points(e) == ~e.none /\ Len(e.rows) > 0

\* Variant: override ignored.
skip_if_exists(ov, exists) == exists

should_skip(ov, exists) == ~ov /\ exists

----------------------------------------------------------------------------
(* embedding_analysis *)

etype == embedding_type[etype_idx]

in_loop == pc = "loop" /\ etype_idx <= Len(embedding_type)

\* The tables of a model are fixed, and nothing depends on one before its first
\* read: a table is drawn when get_embeddings first reads it and kept from then
\* on.  A later read asks for token ids among those of the first read (vocab only
\* shrinks), so the rows the first read does not ask for are never seen and are
\* left at the placeholder.
Unread == [known |-> FALSE, rows |-> [t \in TokenIds |-> <<"fin", "fin">>]]

Known(table) == [known |-> TRUE, rows |-> table]

Tables(t, ids) ==
    IF t.known THEN {t.rows}
    ELSE {table \in [TokenIds -> RowKinds] :
             \A i \in TokenIds \ ids : table[i] = Unread.rows[i]}

\* the token ids get_embeddings asks the model about
ids_read(name, v, et) ==
    IF et = EMBEDDING_TYPE_INPUT /\ ~is_openai(name)
    THEN 0 .. (Min(model_vocab_size, Len(v)) - 1)
    ELSE IF et = EMBEDDING_TYPE_OUTPUT
         THEN {convert_tokens_to_ids(v[j]) : j \in 1 .. Len(v)}
         ELSE {}

NoCalls == [get_embeddings |-> 0, do_embedding_analysis |-> 0, save |-> 0]

Count(what) == [called EXCEPT ![what] = @ + 1]

BatchIdle ==
    /\ sentences = <<>>
    /\ batch_size = 0
    /\ memory = [total |-> 0, free |-> 0]
    /\ result = Raised
    /\ step = "idle"

Init ==
    /\ model_name \in ModelNames
    /\ embedding_type \in SeqsUpTo(ETypes, MaxTypes)
    /\ override \in BOOLEAN
    /\ marked \in {{}, {MaxTok - 1}}
    /\ model_vocab_size \in {MaxTok - 1, MaxTok}
    /\ has_get_input_embeddings \in BOOLEAN
    /\ is_openai(model_name) =>
          marked = {} /\ model_vocab_size = MaxTok /\ ~has_get_input_embeddings
    /\ model_vocab_size = MaxTok /\ ~is_openai(model_name) => has_get_input_embeddings
    /\ files \in [ETypes -> {"none", "old"}]
    /\ \A e \in ETypes :
          files[e] = "old" => \E i \in DOMAIN embedding_type : embedding_type[i] = e
    /\ pc = "start"
    /\ etype_idx = 1
    /\ vocab = <<>>
    /\ embeddings = None
    /\ called = NoCalls
    /\ raised_at = "none"
    /\ weight = Unread
    /\ hidden = Unread
    /\ loaded = FALSE
    /\ released = FALSE
    /\ BatchIdle

\* lines 283-287: only text-embedding-ada-002 of the OpenAI models is supported
SkipUnsupported ==
    /\ pc = "start"
    /\ model_name = "OpenAI/gpt-4"
    /\ pc' = "returned"
    /\ UNCHANGED <<model_name, embedding_type, override, marked,
                   has_get_input_embeddings, model_vocab_size, files, etype_idx,
                   vocab, embeddings, called, raised_at, weight, hidden, loaded, released>>
    /\ UNCHANGED batch_vars

\* lines 290-299
Load ==
    /\ pc = "start"
    /\ model_name # "OpenAI/gpt-4"
    /\ loaded' = TRUE
    /\ vocab' = truncate_vocab(get_vocab(model_name))
    /\ pc' = "loop"
    /\ UNCHANGED <<model_name, embedding_type, override, marked,
                   has_get_input_embeddings, model_vocab_size, files, etype_idx,
                   embeddings, called, raised_at, weight, hidden, released>>
    /\ UNCHANGED batch_vars

\* lines 317-319
SkipExisting ==
    /\ in_loop
    /\ should_skip(override, files[etype] # "none")
    /\ etype_idx' = etype_idx + 1
    /\ UNCHANGED <<model_name, embedding_type, override, marked,
                   has_get_input_embeddings, model_vocab_size, files, pc,
                   vocab, embeddings, called, raised_at, weight, hidden, loaded, released>>
    /\ UNCHANGED batch_vars

\* line 322
Fetch ==
    /\ in_loop
    /\ ~should_skip(override, files[etype] # "none")
    /\ \E mem \in GpuReports,
          table \in Tables(IF etype = EMBEDDING_TYPE_INPUT THEN weight ELSE hidden,
                           ids_read(model_name, vocab, etype)) :
          LET r == get_embeddings(model_name, vocab, etype, mem, table)
          IN /\ weight' = IF etype = EMBEDDING_TYPE_INPUT THEN Known(table) ELSE weight
             /\ hidden' = IF etype = EMBEDDING_TYPE_OUTPUT THEN Known(table) ELSE hidden
             /\ IF r.raised
                THEN /\ pc' = "raised"
                     /\ raised_at' = "get_embeddings"
                     /\ UNCHANGED embeddings
                ELSE /\ pc' = "sanitize"
                     /\ embeddings' = r.value
                     /\ UNCHANGED raised_at
    /\ called' = Count("get_embeddings")
    /\ UNCHANGED <<model_name, embedding_type, override, marked,
                   has_get_input_embeddings, model_vocab_size, files, etype_idx,
                   vocab, loaded, released>>
    /\ UNCHANGED batch_vars

\* line 322, the model or the embedding service failing: lines 90, 107-111,
\* 143-151, 229-233
FetchFails ==
    /\ in_loop
    /\ ~should_skip(override, files[etype] # "none")
    /\ \/ etype = EMBEDDING_TYPE_OUTPUT
       \/ etype = EMBEDDING_TYPE_INPUT /\ ~is_openai(model_name)
    /\ pc' = "raised"
    /\ raised_at' = "get_embeddings"
    /\ called' = Count("get_embeddings")
    /\ UNCHANGED <<model_name, embedding_type, override, marked,
                   has_get_input_embeddings, model_vocab_size, files, etype_idx,
                   vocab, embeddings, weight, hidden, loaded, released>>
    /\ UNCHANGED batch_vars

\* lines 323-332
Sanitize ==
    /\ pc = "sanitize"
    /\ IF sanitize_raises(embeddings, vocab)
       THEN /\ pc' = "raised"
            /\ raised_at' = "sanitize"
            /\ UNCHANGED <<embeddings, vocab>>
       ELSE LET kept == sanitize(embeddings.rows, vocab)
            IN /\ embeddings' = Matrix(kept.embeddings)
               /\ vocab' = kept.vocab
               /\ pc' = "check"
               /\ UNCHANGED raised_at
    /\ UNCHANGED <<model_name, embedding_type, override, marked,
                   has_get_input_embeddings, model_vocab_size, files, etype_idx,
                   called, weight, hidden, loaded, released>>
    /\ UNCHANGED batch_vars

\* line 333, the condition false
SkipEmpty ==
    /\ pc = "check"
    /\ ~has_points(embeddings)
    /\ pc' = "loop"
    /\ etype_idx' = etype_idx + 1
    /\ UNCHANGED <<model_name, embedding_type, override, marked,
                   has_get_input_embeddings, model_vocab_size, files,
                   vocab, embeddings, called, raised_at, weight, hidden, loaded, released>>
    /\ UNCHANGED batch_vars

\* lines 335-348: the image is drawn and saved
AnalyseSave ==
    /\ pc = "check"
    /\ has_points(embeddings)
    /\ called' = [called EXCEPT !.do_embedding_analysis = @ + 1, !.save = @ + 1]
    /\ files' = [files EXCEPT ![etype] = "new"]
    /\ pc' = "loop"
    /\ etype_idx' = etype_idx + 1
    /\ UNCHANGED <<model_name, embedding_type, override, marked,
                   has_get_input_embeddings, model_vocab_size,
                   vocab, embeddings, raised_at, weight, hidden, loaded, released>>
    /\ UNCHANGED batch_vars

\* lines 335-350: do_embedding_analysis returns None
AnalyseNone ==
    /\ pc = "check"
    /\ has_points(embeddings)
    /\ called' = Count("do_embedding_analysis")
    /\ pc' = "loop"
    /\ etype_idx' = etype_idx + 1
    /\ UNCHANGED <<model_name, embedding_type, override, marked,
                   has_get_input_embeddings, model_vocab_size, files,
                   vocab, embeddings, raised_at, weight, hidden, loaded, released>>
    /\ UNCHANGED batch_vars

\* lines 335-343: reduce_to_2d or draw_vocab_embeddings raises
AnalyseFails ==
    /\ pc = "check"
    /\ has_points(embeddings)
    /\ called' = Count("do_embedding_analysis")
    /\ pc' = "raised"
    /\ raised_at' = "do_embedding_analysis"
    /\ UNCHANGED <<model_name, embedding_type, override, marked,
                   has_get_input_embeddings, model_vocab_size, files, etype_idx,
                   vocab, embeddings, weight, hidden, loaded, released>>
    /\ UNCHANGED batch_vars

\* line 348: image.save raises; the file is untouched or left partly written
SaveFails ==
    /\ pc = "check"
    /\ has_points(embeddings)
    /\ called' = [called EXCEPT !.do_embedding_analysis = @ + 1, !.save = @ + 1]
    /\ \E f \in {files[etype], "partial"} : files' = [files EXCEPT ![etype] = f]
    /\ pc' = "raised"
    /\ raised_at' = "save"
    /\ UNCHANGED <<model_name, embedding_type, override, marked,
                   has_get_input_embeddings, model_vocab_size, etype_idx,
                   vocab, embeddings, weight, hidden, loaded, released>>
    /\ UNCHANGED batch_vars

\* lines 352-358
Finish ==
    /\ pc = "loop"
    /\ etype_idx > Len(embedding_type)
    /\ released' = TRUE
    /\ pc' = "returned"
    /\ UNCHANGED <<model_name, embedding_type, override, marked,
                   has_get_input_embeddings, model_vocab_size, files, etype_idx,
                   vocab, embeddings, called, raised_at, weight, hidden, loaded>>
    /\ UNCHANGED batch_vars

Next ==
    \/ SkipUnsupported
    \/ Load
    \/ SkipExisting
    \/ Fetch
    \/ FetchFails
    \/ Sanitize
    \/ SkipEmpty
    \/ AnalyseSave
    \/ AnalyseNone
    \/ AnalyseFails
    \/ SaveFails
    \/ Finish

Spec == Init /\ [][Next]_vars

----------------------------------------------------------------------------
(* The batching helpers on their own: get_sentences_embedding_in_batch     *)
(* called with any sentence list and batch size, and get_output_embeddings *)
(* called with any GPU memory report.                                      *)

Texts == 0 .. (2 * MaxTok - 1)

FiniteTable == [t \in TokenIds |-> <<"fin", "fin">>]

AnalysisIdle ==
    /\ model_name = "org/model"
    /\ embedding_type = <<>>
    /\ override = FALSE
    /\ marked = {}
    /\ has_get_input_embeddings = TRUE
    /\ model_vocab_size = MaxTok
    /\ files = [e \in ETypes |-> "none"]
    /\ pc = "idle"
    /\ etype_idx = 1
    /\ vocab = <<>>
    /\ embeddings = None
    /\ called = NoCalls
    /\ raised_at = "none"
    /\ weight = Unread
    /\ hidden = Unread
    /\ loaded = FALSE
    /\ released = FALSE

InitBatch ==
    /\ AnalysisIdle
    /\ sentences \in SeqsUpTo(Texts, MaxSent)
    /\ batch_size \in 1 .. MaxBatch
    /\ memory \in GpuReports
    /\ result = Raised
    /\ step = "init"

\* lines 202-211
CallInBatch ==
    /\ step = "init"
    /\ result' = get_sentences_embedding_in_batch(sentences, batch_size, FiniteTable)
    /\ step' = "batch_done"
    /\ UNCHANGED <<sentences, batch_size, memory>>
    /\ UNCHANGED analysis_vars

\* lines 220-227
CallOutput ==
    /\ step = "init"
    /\ batch_size' = output_batch_size(memory)
    /\ result' = get_output_embeddings(model_name, sentences, memory, FiniteTable)
    /\ step' = "output_done"
    /\ UNCHANGED <<sentences, memory>>
    /\ UNCHANGED analysis_vars

NextBatch ==
    \/ CallInBatch
    \/ CallOutput

SpecBatch == InitBatch /\ [][NextBatch]_vars

----------------------------------------------------------------------------
(* Properties *)

\* rows2 / v2 are rows / v with some indices removed, the same ones in both.
IsPairedSubsequence(rows, v, rows2, v2) ==
    \E f \in [1 .. Len(rows2) -> 1 .. Len(rows)] :
        /\ \A a, b \in 1 .. Len(rows2) : a < b => f[a] < f[b]
        /\ \A j \in 1 .. Len(rows2) : rows2[j] = rows[f[j]] /\ v2[j] = v[f[j]]

IsFinite(x) == x = "fin"

\* C1: a sanitization that completes leaves as many vocabulary entries as rows,
\* and the kept (row, token) pairs are the original pairs (embeddings[i],
\* vocab[i]) with some indices removed, in their original order.
C1_SanitizeKeepsPairs ==
    [][pc = "sanitize" /\ pc' = "check" =>
          /\ Len(vocab') = Len(embeddings'.rows)
          /\ IsPairedSubsequence(embeddings.rows, vocab, embeddings'.rows, vocab')]_vars

\* The first embedding type was sanitized: an earlier row was dropped and the
\* last token of the vocabulary was kept.
C1_Witness ==
    /\ pc = "check"
    /\ etype_idx = 1
    /\ model_vocab_size = MaxTok
    /\ Len(vocab) = MaxTok - 1
    /\ Len(embeddings.rows) = Len(vocab)
    /\ Len(vocab) >= 1
    /\ vocab[Len(vocab)] = convert_tokens_to_string(MaxTok - 1)

\* C2: every row handed to do_embedding_analysis is fully finite (no NaN, no
\* +inf, no -inf element).
C2_HandedRowsFinite ==
    pc = "check" /\ has_points(embeddings) =>
        \A i \in 1 .. Len(embeddings.rows) :
            \A k \in DOMAIN embeddings.rows[i].vals : IsFinite(embeddings.rows[i].vals[k])

\* C3: when sanitization leaves zero rows, the next step goes on to the next
\* embedding type: do_embedding_analysis is not called, nothing is saved, no
\* file changes and no exception is raised.
C3_EmptySkipsRender ==
    [][pc = "check" /\ ~embeddings.none /\ Len(embeddings.rows) = 0 =>
          /\ pc' = "loop"
          /\ etype_idx' = etype_idx + 1
          /\ called' = called
          /\ files' = files
          /\ raised_at' = raised_at]_vars

\* The first embedding type was fetched, sanitized to zero rows and skipped;
\* the loop stands before the second embedding type.
C3_Witness ==
    /\ pc = "loop"
    /\ etype_idx = 2
    /\ etype_idx <= Len(embedding_type)
    /\ called = [get_embeddings |-> 1, do_embedding_analysis |-> 0, save |-> 0]
    /\ ~embeddings.none
    /\ Len(embeddings.rows) = 0

\* C4: the sanitization step never raises, whatever get_embeddings returned.
C4_SanitizeNeverRaises == raised_at # "sanitize"

\* C5: an exception from embedding extraction, reduction, rendering or saving
\* for one embedding type leaves no later embedding type of the list unprocessed.
C5_FailureDoesNotAbortLaterTypes ==
    pc = "raised" /\ raised_at \in {"get_embeddings", "do_embedding_analysis", "save"} =>
        etype_idx = Len(embedding_type)

\* C6: whenever control has left embedding_analysis after the tokenizer and the
\* model were loaded, by return or by exception, release_resource was called.
C6_ReleasedOnEveryExit ==
    loaded /\ pc \in {"returned", "raised"} => released

\* C7: with override false and the output file present, the embedding type is
\* passed over with no call made and no file changed; with override true the
\* present file does not stop get_embeddings from being called, and a save
\* writes the file of the embedding type being processed.
C7_SkipUnlessOverride ==
    [][/\ in_loop /\ ~override /\ files[etype] # "none" =>
              /\ called' = called
              /\ files' = files
              /\ embeddings' = embeddings
              /\ pc' = "loop"
              /\ etype_idx' = etype_idx + 1
       /\ in_loop /\ override /\ files[etype] # "none" =>
              called'.get_embeddings = called.get_embeddings + 1
       /\ pc = "check" /\ pc' = "loop" /\ called'.save = called.save + 1 =>
              files' = [files EXCEPT ![etype] = "new"]]_vars

\* override is false, every embedding type of the list had its file and was
\* passed over: the function returned with no call made and the files as before.
C7_Witness ==
    /\ pc = "returned"
    /\ loaded
    /\ ~override
    /\ Len(embedding_type) >= 1
    /\ called = NoCalls
    /\ \A i \in DOMAIN embedding_type : files[embedding_type[i]] = "old"

\* C8: for every embedding type, whatever was dropped for earlier types, row i
\* handed on is the embedding of the token whose surface text is vocabulary
\* entry i.  Stated for the tokenizers that convert every surface text back to
\* the id of its own token (marked = {}), so that only the order of the rows and
\* of the vocabulary decides it.
C8_RowIsEmbeddingOfItsToken ==
    pc = "check" /\ marked = {} =>
        \A i \in 1 .. Len(embeddings.rows) :
            convert_tokens_to_string(embeddings.rows[i].tok) = vocab[i]

\* C9: get_sentences_embedding_in_batch returns, for every sentence list and
\* every batch_size >= 1, one row per sentence in the order of the sentences,
\* each the embedding of that sentence.
C9_BatchOneRowPerSentence ==
    step = "batch_done" =>
        /\ ~result.raised
        /\ result.value.rows =
              [j \in 1 .. Len(sentences) |->
                  get_sentences_embeddings(<<sentences[j]>>, FiniteTable)[1]]

\* C10: the batch size get_output_embeddings computes from a GPU memory report
\* is a positive integer.
C10_BatchSizePositive ==
    step = "output_done" => batch_size > 0

====
